---- MODULE Spec2Model ----
(***************************************************************************)
(* Model of examples/data_connectors/GithubRepositoryReaderDemo.ipynb:     *)
(* six notebook cells executed top to bottom by the kernel.  The cells     *)
(* call into llama_index (GithubRepositoryReader, GPTSimpleVectorIndex),   *)
(* whose source is not part of this repository; the library calls are      *)
(* modelled from their documented contracts and every outcome the          *)
(* contract allows (return, or raise) is a nondeterministic choice.        *)
(***************************************************************************)
EXTENDS Integers, Sequences, FiniteSets, TLC

\* ---------------------------------------------------------------- bounds
\* Number of distinct files the remote branch may hold.
NumDocs == 2
\* Longest file listing of the remote branch.
MaxFiles == 2
\* Cap on how often one stage may be started (the notebook starts each once).
MaxExec == 2

\* ------------------------------------------------------------- constants
Question == "What is the difference between GPTSimpleVectorIndex and GPTListIndex?"
IndexPath == "github_index.json"

StageSeq == <<"setup", "acquisition", "build", "persist", "query", "display">>
StageSet == {StageSeq[i] : i \in 1..Len(StageSeq)}
StageNo(s) == CHOOSE i \in 1..Len(StageSeq) : StageSeq[i] = s

VARIABLES
    pc,            \* the cell (or step of a cell) the kernel runs next
    nest_applied,  \* nest_asyncio.apply() has patched the kernel's event loop
    env,           \* process environment: the set of variables that are set
    github_token,  \* notebook variable github_token is bound
    documents,     \* notebook variable documents
    index,         \* notebook variable index
    file,          \* github_index.json on disk
    response,      \* notebook variable response
    displayed,     \* what display(...) has rendered
    error,         \* the exception that ended the run, "none" if there is none
    execs,         \* how often each stage has been started
    completed,     \* stages that returned without raising
    token_valid,   \* remote side: the token is accepted
    repo_exists,   \* remote side: owner/repo/branch exist
    files          \* remote side: eligible files on the branch

vars == <<pc, nest_applied, env, github_token, documents, index, file, response,
          displayed, error, execs, completed, token_valid, repo_exists, files>>

world == <<token_valid, repo_exists, files>>

\* File listings: sequences of distinct paths, at most MaxFiles long.
FileSeqs ==
    {s \in UNION {[1..n -> 1..NumDocs] : n \in 0..MaxFiles} :
        \A i, j \in 1..Len(s) : i # j => s[i] # s[j]}

NoDocuments == [bound |-> FALSE, val |-> <<>>]
NoIndex == [bound |-> FALSE, nodes |-> <<>>]
NoFile == [state |-> "absent", nodes |-> <<>>]
NoAnswer == [question |-> "", sources |-> <<>>]
NoResponse == [bound |-> FALSE, answer |-> NoAnswer]

\* ------------------------------------------------- library (by contract)
Document(f) == [text |-> f, extra_info |-> [file_path |-> f]]

\* GithubRepositoryReader(...).load_data(branch=branch)
LoadDataEmptyIsError(valid, exists, fs) ==
    IF ~valid THEN [err |-> "AuthenticationError", docs |-> <<>>]
    ELSE IF ~exists \/ fs = <<>> THEN [err |-> "NotFoundError", docs |-> <<>>]
    ELSE [err |-> "none", docs |-> [i \in 1..Len(fs) |-> Document(fs[i])]]

LoadData(valid, exists, fs) ==
    IF ~valid THEN [err |-> "AuthenticationError", docs |-> <<>>]
    ELSE IF ~exists THEN [err |-> "NotFoundError", docs |-> <<>>]
    ELSE [err |-> "none", docs |-> [i \in 1..Len(fs) |-> Document(fs[i])]]

Embed(d) == (3 * d.text + 1) % 7

\* GPTSimpleVectorIndex.from_documents(documents)
FromDocuments(docs) ==
    [bound |-> TRUE,
     nodes |-> [i \in 1..Len(docs) |-> [doc |-> docs[i], embedding |-> Embed(docs[i])]]]

\* The Documents an index covers.
Covered(idx) == [i \in 1..Len(idx.nodes) |-> idx.nodes[i].doc]

\* index.save_to_disk(path): the snapshot written on success
Serialize(idx) == [state |-> "written", nodes |-> idx.nodes]

\* index.query(question, verbose=True)
Query(idx, q, llm_ok) ==
    IF idx.nodes = <<>> \/ ~llm_ok
    THEN [err |-> "QueryError", answer |-> NoAnswer]
    ELSE [err |-> "none", answer |-> [question |-> q, sources |-> Covered(idx)]]

\* Markdown(f"<b>{response}</b>")
Markdown(r) == [bold |-> r.answer]

\* -------------------------------------------------------------- notebook
Init ==
    /\ pc = "cell0"
    /\ nest_applied = FALSE
    /\ env = {}
    /\ github_token = FALSE
    /\ documents = NoDocuments
    /\ index = NoIndex
    /\ file = NoFile
    /\ response = NoResponse
    /\ displayed = [bound |-> FALSE, md |-> Markdown(NoResponse)]
    /\ error = "none"
    /\ execs = [s \in StageSet |-> 0]
    /\ completed = {}
    /\ token_valid \in BOOLEAN
    /\ repo_exists \in BOOLEAN
    /\ files \in FileSeqs

\* Cell order: a cell that returns hands control to the one below it.
NextCellLoop(p) ==
    CASE p = "cell0" -> "cell1"
      [] p = "cell1" -> "cell2"
      [] p = "cell2" -> "load_data"
      [] p = "load_data" -> "acquiring"
      [] p = "acquiring" -> "cell3"
      [] p = "cell3" -> "save"
      [] p = "save" -> "cell4"
      [] p = "cell4" -> "cell5"
      [] p = "cell5" -> "cell4"
      [] OTHER -> p

NextCell(p) ==
    CASE p = "cell0" -> "cell1"
      [] p = "cell1" -> "cell2"
      [] p = "cell2" -> "load_data"
      [] p = "load_data" -> "acquiring"
      [] p = "acquiring" -> "cell3"
      [] p = "cell3" -> "save"
      [] p = "save" -> "cell4"
      [] p = "cell4" -> "cell5"
      [] p = "cell5" -> "done"
      [] OTHER -> p

\* No cell has a try/except: an exception ends the run where it is raised.
RaiseRetry(e) ==
    /\ error' = e
    /\ pc' = IF pc = "acquiring" THEN "load_data" ELSE pc

Raise(e) ==
    /\ error' = e
    /\ pc' = "aborted"

Start(s) == execs' = [execs EXCEPT ![s] = @ + 1]

\* Cell 0: import nest_asyncio; nest_asyncio.apply()
Cell0Unpatched ==
    /\ pc = "cell0"
    /\ pc' = NextCell(pc)
    /\ UNCHANGED <<nest_applied, env, github_token, documents, index, file, response,
                   displayed, error, execs, completed, world>>

Cell0 ==
    /\ pc = "cell0"
    /\ nest_applied' = TRUE
    /\ pc' = NextCell(pc)
    /\ UNCHANGED <<env, github_token, documents, index, file, response,
                   displayed, error, execs, completed, world>>

\* Cell 1: %env OPENAI_API_KEY=...; imports
Cell1 ==
    /\ pc = "cell1"
    /\ execs["setup"] < MaxExec
    /\ Start("setup")
    /\ env' = env \cup {"OPENAI_API_KEY"}
    /\ pc' = NextCell(pc)
    /\ UNCHANGED <<nest_applied, github_token, documents, index, file, response,
                   displayed, error, completed, world>>

\* Cell 2, first lines: %env GITHUB_TOKEN=...; github_token = os.environ.get(...)
Cell2Setup ==
    /\ pc = "cell2"
    /\ env' = env \cup {"GITHUB_TOKEN"}
    /\ github_token' = ("GITHUB_TOKEN" \in env')
    /\ completed' = completed \cup {"setup"}
    /\ pc' = NextCell(pc)
    /\ UNCHANGED <<nest_applied, documents, index, file, response,
                   displayed, error, execs, world>>

\* Cell 2: the blocking load_data call enters the reader's run-until-complete
\* from inside the kernel's running loop.  Unpatched, the nested run either is
\* refused (RuntimeError) or blocks on the loop that is waiting for it.
Cell2Load ==
    /\ pc = "load_data"
    /\ execs["acquisition"] < MaxExec
    /\ Start("acquisition")
    /\ IF nest_applied
       THEN pc' = NextCell(pc) /\ error' = error
       ELSE \/ pc' = "blocked" /\ error' = error
            \/ Raise("RuntimeError")
    /\ UNCHANGED <<nest_applied, env, github_token, documents, index, file, response,
                   displayed, completed, world>>

\* Cell 2: load_data returns or raises; documents is bound only on return.
LoadReturnSwallow ==
    /\ pc = "acquiring"
    /\ LET r == LoadData(github_token /\ token_valid, repo_exists, files) IN
         /\ documents' = [bound |-> TRUE, val |-> r.docs]
         /\ completed' = completed \cup {"acquisition"}
         /\ error' = r.err
         /\ pc' = NextCell(pc)
    /\ UNCHANGED <<nest_applied, env, github_token, index, file, response,
                   displayed, execs, world>>

LoadReturn ==
    /\ pc = "acquiring"
    /\ LET r == LoadData(github_token /\ token_valid, repo_exists, files) IN
         IF r.err # "none"
         THEN /\ Raise(r.err)
              /\ UNCHANGED <<documents, completed>>
         ELSE /\ documents' = [bound |-> TRUE, val |-> r.docs]
              /\ completed' = completed \cup {"acquisition"}
              /\ error' = error
              /\ pc' = NextCell(pc)
    /\ UNCHANGED <<nest_applied, env, github_token, index, file, response,
                   displayed, execs, world>>

\* Cell 3, line 1: index = GPTSimpleVectorIndex.from_documents(documents)
Cell3BuildDropsFirst ==
    /\ pc = "cell3"
    /\ execs["build"] < MaxExec
    /\ Start("build")
    /\ \E fail \in (IF documents.val # <<>> THEN BOOLEAN ELSE {FALSE}) :
         IF fail
         THEN /\ Raise("EmbeddingError")
              /\ UNCHANGED <<index, completed>>
         ELSE /\ index' = FromDocuments(IF documents.val = <<>> THEN <<>>
                                        ELSE Tail(documents.val))
              /\ completed' = completed \cup {"build"}
              /\ error' = error
              /\ pc' = NextCell(pc)
    /\ UNCHANGED <<nest_applied, env, github_token, documents, file, response,
                   displayed, world>>

Cell3Build ==
    /\ pc = "cell3"
    /\ execs["build"] < MaxExec
    /\ Start("build")
    /\ \E fail \in (IF documents.val # <<>> THEN BOOLEAN ELSE {FALSE}) :
         IF fail
         THEN /\ Raise("EmbeddingError")
              /\ UNCHANGED <<index, completed>>
         ELSE /\ index' = FromDocuments(documents.val)
              /\ completed' = completed \cup {"build"}
              /\ error' = error
              /\ pc' = NextCell(pc)
    /\ UNCHANGED <<nest_applied, env, github_token, documents, file, response,
                   displayed, world>>

\* Cell 3, line 2: index.save_to_disk("github_index.json").  The write is not
\* atomic: a failed write leaves the file absent or partly written.
Cell3SaveSkipsEmpty ==
    /\ pc = "save"
    /\ execs["persist"] < MaxExec
    /\ Start("persist")
    /\ \E fail \in BOOLEAN :
         IF fail
         THEN /\ Raise("IOError")
              /\ file' \in {file, [state |-> "partial", nodes |-> <<>>]}
              /\ UNCHANGED completed
         ELSE /\ file' = IF index.nodes = <<>> THEN file ELSE Serialize(index)
              /\ completed' = completed \cup {"persist"}
              /\ error' = error
              /\ pc' = NextCell(pc)
    /\ UNCHANGED <<nest_applied, env, github_token, documents, index, response,
                   displayed, world>>

Cell3Save ==
    /\ pc = "save"
    /\ execs["persist"] < MaxExec
    /\ Start("persist")
    /\ \E fail \in BOOLEAN :
         IF fail
         THEN /\ Raise("IOError")
              /\ file' \in {file, [state |-> "partial", nodes |-> <<>>]}
              /\ UNCHANGED completed
         ELSE /\ file' = Serialize(index)
              /\ completed' = completed \cup {"persist"}
              /\ error' = error
              /\ pc' = NextCell(pc)
    /\ UNCHANGED <<nest_applied, env, github_token, documents, index, response,
                   displayed, world>>

\* Cell 4: response = index.query(Question, verbose=True)
Cell4QueryCaches ==
    /\ pc = "cell4"
    /\ execs["query"] < MaxExec
    /\ Start("query")
    /\ index' = [index EXCEPT !.nodes = Append(@, [doc |-> Document(0), embedding |-> 0])]
    /\ \E llm_ok \in BOOLEAN :
         LET r == Query(index, Question, llm_ok) IN
           IF r.err # "none"
           THEN /\ Raise(r.err)
                /\ UNCHANGED <<response, completed>>
           ELSE /\ response' = [bound |-> TRUE, answer |-> r.answer]
                /\ completed' = completed \cup {"query"}
                /\ error' = error
                /\ pc' = NextCell(pc)
    /\ UNCHANGED <<nest_applied, env, github_token, documents, file,
                   displayed, world>>

Cell4Query ==
    /\ pc = "cell4"
    /\ execs["query"] < MaxExec
    /\ Start("query")
    /\ \E llm_ok \in BOOLEAN :
         LET r == Query(index, Question, llm_ok) IN
           IF r.err # "none"
           THEN /\ Raise(r.err)
                /\ UNCHANGED <<response, completed>>
           ELSE /\ response' = [bound |-> TRUE, answer |-> r.answer]
                /\ completed' = completed \cup {"query"}
                /\ error' = error
                /\ pc' = NextCell(pc)
    /\ UNCHANGED <<nest_applied, env, github_token, documents, index, file,
                   displayed, world>>

\* Cell 5: display(Markdown(f"<b>{response}</b>"))
Cell5Display ==
    /\ pc = "cell5"
    /\ execs["display"] < MaxExec
    /\ Start("display")
    /\ displayed' = [bound |-> TRUE, md |-> Markdown(response)]
    /\ completed' = completed \cup {"display"}
    /\ pc' = NextCell(pc)
    /\ UNCHANGED <<nest_applied, env, github_token, documents, index, file, response,
                   error, world>>

Next ==
    \/ Cell0
    \/ Cell1
    \/ Cell2Setup
    \/ Cell2Load
    \/ LoadReturn
    \/ Cell3Build
    \/ Cell3Save
    \/ Cell4Query
    \/ Cell5Display

Spec == Init /\ [][Next]_vars

\* The kernel keeps running the cell it is in; a started network call
\* eventually returns or raises.
LiveSpec == Init /\ [][Next]_vars /\ WF_vars(Next)

\* ---------------------------------------------------------------- claims
Finished == ~ENABLED Next

\* The stage in which an exception of the given kind is raised.
StageOfError(e) ==
    CASE e \in {"AuthenticationError", "NotFoundError", "RuntimeError"} -> "acquisition"
      [] e = "EmbeddingError" -> "build"
      [] e = "IOError" -> "persist"
      [] e = "QueryError" -> "query"
      [] OTHER -> "display"

AcquisitionOver == execs["acquisition"] >= 1 /\ pc \notin {"acquiring", "blocked"}

\* C1: every stage is started at most once; a stage is started only after
\* its predecessor in setup -> acquisition -> build -> persist -> query ->
\* display has completed successfully; a run that ends without an error has
\* started and completed every stage exactly once.
C1_StagesOnceInOrder ==
    /\ \A s \in StageSet : execs[s] <= 1
    /\ \A i \in 2..Len(StageSeq) :
         execs[StageSeq[i]] >= 1 => StageSeq[i - 1] \in completed
    /\ \A s \in completed : execs[s] = 1
    /\ (Finished /\ error = "none") =>
         /\ pc = "done"
         /\ completed = StageSet
         /\ \A s \in StageSet : execs[s] = 1

C1_Witness ==
    /\ pc = "done"
    /\ error = "none"
    /\ \A s \in StageSet : execs[s] = 1

\* C2: once any stage has raised, the run is over: the exception is the
\* run's outcome, nothing is enabled any more, the failed stage was started
\* exactly once and did not complete, no later stage was ever started, and
\* no answer is displayed.
C2_ErrorAborts ==
    error # "none" =>
        /\ error \in {"AuthenticationError", "NotFoundError", "EmbeddingError",
                      "IOError", "QueryError"}
        /\ pc = "aborted"
        /\ Finished
        /\ execs[StageOfError(error)] = 1
        /\ StageOfError(error) \notin completed
        /\ \A i \in 1..Len(StageSeq) :
             i > StageNo(StageOfError(error)) => execs[StageSeq[i]] = 0
        /\ ~displayed.bound

C2_Witness ==
    /\ error = "IOError"
    /\ pc = "aborted"
    /\ index.bound

\* C3: whenever the index exists, acquisition ran exactly once and the
\* Documents the index covers are exactly the sequence that call returned,
\* which is what documents holds; this stays so through persistence, query
\* and display.
C3_IndexFromOneAcquisition ==
    index.bound =>
        /\ execs["acquisition"] = 1
        /\ execs["build"] = 1
        /\ documents.bound
        /\ documents.val = LoadData(token_valid, repo_exists, files).docs
        /\ Covered(index) = documents.val

C3_Witness ==
    /\ pc = "done"
    /\ index.bound
    /\ Len(Covered(index)) > 1

\* C4: the query step, whether it returns an answer or raises QueryError,
\* leaves the index and the persisted index file as they were.
C4_QueryDoesNotMutate ==
    [][pc = "cell4" => (index' = index /\ file' = file)]_vars

C4_Witness ==
    /\ execs["query"] = 1
    /\ error = "QueryError"
    /\ index.bound
    /\ Len(index.nodes) > 0
    /\ file.state = "written"

\* C6: when acquisition is over, an invalid token has produced
\* AuthenticationError and a nonexistent owner/repository/branch has
\* produced NotFoundError; after either, documents was never bound, index
\* construction was never started and no index exists.
C6_FailedAcquisitionReturnsNothing ==
    AcquisitionOver =>
        /\ ~token_valid => error = "AuthenticationError"
        /\ (token_valid /\ ~repo_exists) => error = "NotFoundError"
        /\ error \in {"AuthenticationError", "NotFoundError"} =>
             /\ ~documents.bound
             /\ documents.val = <<>>
             /\ execs["build"] = 0
             /\ ~index.bound

C6_Witness ==
    /\ error = "NotFoundError"
    /\ token_valid
    /\ files # <<>>
    /\ ~documents.bound

\* C7: with a valid token and an existing owner/repository/branch,
\* acquisition does not raise; it returns a non-empty Document sequence
\* when the branch has an eligible file and the empty sequence when it has
\* none.
C7_ValidAcquisitionReturns ==
    (AcquisitionOver /\ token_valid /\ repo_exists) =>
        /\ error \notin {"AuthenticationError", "NotFoundError", "RuntimeError"}
        /\ documents.bound
        /\ Len(documents.val) = Len(files)
        /\ (files # <<>>) => (documents.val # <<>>)
        /\ (files = <<>>) => (documents.val = <<>>)

C7_Witness ==
    /\ AcquisitionOver
    /\ token_valid /\ repo_exists
    /\ files = <<>>
    /\ documents.bound
    /\ error = "none"

C10_EmptyRepoFailsOnlyAtQuery ==
    (token_valid /\ repo_exists /\ files = <<>> /\ Finished) =>
        /\ error = "QueryError"
        /\ documents.bound /\ documents.val = <<>>
        /\ index.bound /\ index.nodes = <<>>
        /\ file = Serialize(index)
        /\ ~displayed.bound

\* C10 amended: with a valid token, an existing branch and no eligible
\* files, acquisition and index construction never fail and nothing is ever
\* displayed; every finished run has failed either at persistence with
\* IOError or at the query stage with QueryError, and in the latter case
\* the index over the empty sequence is already on disk.
C10_EmptyRepoFailsAtQueryOrPersist ==
    (token_valid /\ repo_exists /\ files = <<>>) =>
        /\ error \in {"none", "IOError", "QueryError"}
        /\ ~displayed.bound
        /\ ~response.bound
        /\ Finished =>
             /\ error \in {"IOError", "QueryError"}
             /\ documents.bound /\ documents.val = <<>>
             /\ index.bound /\ index.nodes = <<>>
             /\ error = "IOError" => execs["query"] = 0
             /\ error = "QueryError" => file = Serialize(index)

C10_Witness ==
    /\ files = <<>>
    /\ error = "QueryError"
    /\ index.bound
    /\ file.state = "written"

====
